---- MODULE Spec2Model ----
(***************************************************************************)
(* The nodejs binding of the crosslocale FFI bridge                        *)
(* (src/node-bindings/addon.cc over src/ffi/crosslocale.h).                *)
(*                                                                         *)
(* One Backend object of the addon: the JS object NodeBackend, the         *)
(* FfiBackend it shares with its NodeRecvMessageWorker instances through   *)
(* std::shared_ptr, the two mutexes of FfiBackend, and behind the C header *)
(* the backend itself: two mpsc channels and the backend thread.  The      *)
(* functions declared in crosslocale.h are implemented outside the source  *)
(* files at hand; they are modelled after the specification's half-channel *)
(* and handle state machine and after the NOTE comments of addon.cc.       *)
(***************************************************************************)
EXTENDS Integers, Sequences, FiniteSets, TLC

(* Bounds of the model. *)
MaxWorkers == 2
MaxSends == 2
MaxMsgs == 2
(* Values under conversion: the longest array, object, list or dict; the *)
(* width standing for the 64 bits of int64_t and uint64_t, and the       *)
(* significand standing for the 53 bits of a double.                     *)
MaxLen == 2
IntBits == 5
MantBits == 3

(* enum crosslocale_message_type *)
CROSSLOCALE_MESSAGE_NIL == 0
CROSSLOCALE_MESSAGE_BOOL == 1
CROSSLOCALE_MESSAGE_I64 == 2
CROSSLOCALE_MESSAGE_F64 == 3
CROSSLOCALE_MESSAGE_STR == 4
CROSSLOCALE_MESSAGE_LIST == 5
CROSSLOCALE_MESSAGE_DICT == 6
CROSSLOCALE_MESSAGE_INVALID == -1

(* enum crosslocale_result *)
CROSSLOCALE_OK == 0
CROSSLOCALE_ERR_GENERIC_RUST_PANIC == 1
CROSSLOCALE_ERR_BACKEND_DISCONNECTED == 2
CROSSLOCALE_ERR_SPAWN_THREAD_FAILED == 4

(* The bridge version the addon was written for. *)
SUPPORTED_FFI_BRIDGE_VERSION == 3

(* Threads of control: the JS main thread and one libuv pool thread per   *)
(* queued NodeRecvMessageWorker.                                          *)
Workers == 1..MaxWorkers
Main == MaxWorkers + 1
Receivers == Workers \cup {Main}
nullptr == "nullptr"

VARIABLES
  nodeBackend,   \* the JS object: "none", "live", "failed", "finalized"
  refs,          \* use_count of the shared_ptr<FfiBackend>
  raw,           \* FfiBackend::raw
  mutex,         \* FfiBackend::send_mutex / recv_mutex: the set of holders
  pc,            \* where each receiver stands in its recv_message
  result,        \* per receiver: what crosslocale_backend_recv_message gave
  lateRecv,      \* per receiver: the recv started with the backend thread gone
  lastCall,      \* the last synchronous call of the main thread and its outcome
  closes,        \* close() calls that returned normally (counted up to 2)
  process,       \* "running", or "terminated" by std::terminate
  closed,        \* backend: the sender half was closed by the caller
  worker,        \* backend thread: "none", "running", "exited", "panicked"
  outbound,      \* host -> backend thread channel
  inbound,       \* backend thread -> host channel
  freeCalls,     \* calls of crosslocale_backend_free
  sendCount,     \* send_message calls made
  sentOk,        \* messages whose send_message returned normally, in order
  workerSeen,    \* messages the backend thread took from outbound, in order
  produced,      \* messages the backend thread put on inbound
  delivered,     \* messages recv_message returned, in order of return
  CROSSLOCALE_FFI_BRIDGE_VERSION,  \* the version of the library loaded
  addon,         \* the module: "loading", "loaded", "failed"
  exports,       \* the names set on the exports object
  fromJs,        \* per send_message call: what happened to its message
  fromRust,      \* per inbound message: what happened to it on the host
  callback,      \* per worker: the calls of its callback, each its arguments
  codec,         \* the value under conversion: where it stands
  rawValue,      \* a crosslocale_message made by the backend
  jsValue,       \* a JS value
  message,       \* the crosslocale_message made from jsValue
  heap           \* what making and freeing message allocated, wrote, read, freed

vars == <<nodeBackend, refs, raw, mutex, pc, result, lateRecv, lastCall,
          closes, process, closed, worker, outbound, inbound, freeCalls,
          sendCount, sentOk, workerSeen, produced, delivered,
          CROSSLOCALE_FFI_BRIDGE_VERSION, addon, exports, fromJs, fromRust,
          callback, codec, rawValue, jsValue, message, heap>>

ffiVars == <<closed, worker, outbound, inbound, freeCalls>>
histVars == <<sendCount, sentOk, workerSeen, produced, delivered>>
moduleVars == <<CROSSLOCALE_FFI_BRIDGE_VERSION, addon, exports>>
ownVars == <<fromJs, fromRust>>
codecVars == <<codec, rawValue, jsValue, message, heap>>

NoResult == [res |-> CROSSLOCALE_OK, msg |-> 0, threw |-> FALSE,
             code |-> CROSSLOCALE_OK]
Call(op, exc, flag, msg) ==
  [op |-> op, threw |-> exc.threw, code |-> exc.code, flag |-> flag]
NoCall ==
  Call("none", [threw |-> FALSE, code |-> CROSSLOCALE_OK], FALSE, 0)

(* The versions a crosslocale library found at load time may report. *)
FfiBridgeVersions ==
  {SUPPORTED_FFI_BRIDGE_VERSION - 1, SUPPORTED_FFI_BRIDGE_VERSION,
   SUPPORTED_FFI_BRIDGE_VERSION + 1}

(* Nothing allocated, written, read or released. *)
NoHeap == [allocated |-> {}, written |-> {}, read |-> {}, released |-> <<>>]

(* No value at hand (a crosslocale_message or a JS value). *)
NoValue == [type |-> "none"]

Init ==
  /\ CROSSLOCALE_FFI_BRIDGE_VERSION \in FfiBridgeVersions
  /\ addon = "loading"
  /\ exports = {}
  /\ fromJs = <<>>
  /\ fromRust = [m \in 1..MaxMsgs |-> <<>>]
  /\ callback = [w \in Workers |-> <<>>]
  /\ codec = "off"
  /\ rawValue = NoValue
  /\ jsValue = NoValue
  /\ message = NoValue
  /\ heap = NoHeap
  /\ nodeBackend = "none"
  /\ refs = 0
  /\ raw = nullptr
  /\ mutex = [send_mutex |-> {}, recv_mutex |-> {}]
  /\ pc = [r \in Receivers |-> IF r = Main THEN "idle" ELSE "unborn"]
  /\ result = [r \in Receivers |-> NoResult]
  /\ lateRecv = [r \in Receivers |-> FALSE]
  /\ lastCall = NoCall
  /\ closes = 0
  /\ process = "running"
  /\ closed = FALSE
  /\ worker = "none"
  /\ outbound = <<>>
  /\ inbound = <<>>
  /\ freeCalls = 0
  /\ sendCount = 0
  /\ sentOk = <<>>
  /\ workerSeen = <<>>
  /\ produced = 0
  /\ delivered = <<>>

(* throw_ffi_result with its test left out: nothing is ever thrown. *)
throw_ffi_result_never(res) ==
  [threw |-> FALSE, code |-> CROSSLOCALE_OK]

(* throw_ffi_result with its test inverted: res == CROSSLOCALE_OK throws. *)
throw_ffi_result_inverted(res) ==
  IF res = CROSSLOCALE_OK
    THEN [threw |-> TRUE, code |-> res]
    ELSE [threw |-> FALSE, code |-> CROSSLOCALE_OK]

(* throw_ffi_result: the exception thrown, if any. *)
throw_ffi_result(res) ==
  IF res # CROSSLOCALE_OK
    THEN [threw |-> TRUE, code |-> res]
    ELSE [threw |-> FALSE, code |-> CROSSLOCALE_OK]

(* The handle states of the bridge, read off the backend. *)
WorkerGone == worker \in {"exited", "panicked"}

HandleState ==
  IF raw = nullptr THEN (IF freeCalls > 0 THEN "Freed" ELSE "None")
  ELSE IF closed THEN "ClosedLocally"
  ELSE IF WorkerGone THEN "Disconnected"
  ELSE "Open"

(* std::lock_guard<std::mutex>: construction and destruction. *)
lock(m, t) ==
  /\ mutex[m] = {}
  /\ mutex' = [mutex EXCEPT ![m] = {t}]

unlock(m, t) ==
  mutex' = [mutex EXCEPT ![m] = @ \ {t}]

(* FfiBackend::close has returned normally at least once. *)
closeReturned == closes > 0

(* The main thread runs JS: it is idle between calls and the process lives. *)
MainIdle == process = "running" /\ pc[Main] = "idle"

(* What Init of the addon sets on the exports object once the versions *)
(* agree, NodeBackend::Init included.                                  *)
Init_exports ==
  {"FFI_BRIDGE_VERSION", "VERSION", "NICE_VERSION", "PROTOCOL_VERSION",
   "init_logging", "Backend"}

(* Init with the version test after the constants are set. *)
Init_check_late(version) ==
  IF version # SUPPORTED_FFI_BRIDGE_VERSION
    THEN [threw |-> TRUE,
          exports |-> {"FFI_BRIDGE_VERSION", "VERSION", "NICE_VERSION",
                       "PROTOCOL_VERSION"}]
    ELSE [threw |-> FALSE, exports |-> Init_exports]

(* Init of the addon: throws before anything is set if the library's *)
(* bridge version is not the supported one.                          *)
Init_check(version) ==
  IF version # SUPPORTED_FFI_BRIDGE_VERSION
    THEN [threw |-> TRUE, exports |-> {}]
    ELSE [threw |-> FALSE, exports |-> Init_exports]

(* NODE_API_MODULE(crosscode_localization_engine, Init): the module is *)
(* loaded and Init runs, once, before any JS code can use the addon.   *)
NODE_API_MODULE_Init ==
  /\ process = "running"
  /\ addon = "loading"
  /\ LET r == Init_check(CROSSLOCALE_FFI_BRIDGE_VERSION) IN
       /\ addon' = IF r.threw THEN "failed" ELSE "loaded"
       /\ exports' = r.exports
  /\ UNCHANGED <<nodeBackend, refs, raw, mutex, pc, result, lateRecv, lastCall,
                 closes, process, CROSSLOCALE_FFI_BRIDGE_VERSION>>
  /\ UNCHANGED <<ffiVars, histVars, ownVars, codecVars, callback>>

(* crosslocale_backend_new: spawns the backend thread and writes the *)
(* handle, or fails and writes nothing.                              *)
crosslocale_backend_new_results ==
  {CROSSLOCALE_OK, CROSSLOCALE_ERR_SPAWN_THREAD_FAILED}

crosslocale_backend_new(res) ==
  IF res = CROSSLOCALE_OK
    THEN [res |-> res, out |-> "handle", worker |-> "running"]
    ELSE [res |-> res, out |-> nullptr, worker |-> "none"]

(* FfiBackend::FfiBackend keeping what the call wrote without a look at *)
(* its result.                                                         *)
FfiBackend_ctor_unchecked(res) ==
  LET r == crosslocale_backend_new(res) IN
  [exc |-> [threw |-> FALSE, code |-> CROSSLOCALE_OK], raw |-> r.out,
   worker |-> r.worker]

(* FfiBackend::FfiBackend: raw is what the call wrote, unless it throws. *)
FfiBackend_ctor(res) ==
  LET r == crosslocale_backend_new(res) IN
  [exc |-> throw_ffi_result(r.res), raw |-> r.out, worker |-> r.worker]

(* new Backend(): NodeBackend::NodeBackend makes the shared FfiBackend; if *)
(* that throws there is no Backend object.  The constructor has no catch:  *)
(* the FfiBackendException leaves it as it is, and whether the caller of   *)
(* the constructor hands it to JS or lets it end the process is not        *)
(* decided in the addon.                                                   *)
NodeBackend_new ==
  /\ MainIdle
  /\ "Backend" \in exports
  /\ nodeBackend = "none"
  /\ \E res \in crosslocale_backend_new_results :
       LET r == FfiBackend_ctor(res) IN
       /\ lastCall' = Call("new", r.exc, FALSE, 0)
       /\ worker' = r.worker
       /\ IF r.exc.threw
            THEN /\ nodeBackend' = "failed"
                 /\ process' \in {"running", "terminated"}
                 /\ UNCHANGED <<refs, raw>>
            ELSE /\ nodeBackend' = "live"
                 /\ refs' = 1
                 /\ raw' = r.raw
                 /\ UNCHANGED process
  /\ UNCHANGED <<mutex, pc, result, lateRecv, closes, closed,
                 outbound, inbound, freeCalls>>
  /\ UNCHANGED histVars
  /\ UNCHANGED <<moduleVars, ownVars, codecVars, callback>>

(* crosslocale_backend_free: releases the channels and the backend thread. *)
(* A backend thread that panicked may be reported as                       *)
(* CROSSLOCALE_ERR_GENERIC_RUST_PANIC.                                     *)
crosslocale_backend_free_results ==
  IF worker = "panicked"
    THEN {CROSSLOCALE_OK, CROSSLOCALE_ERR_GENERIC_RUST_PANIC}
    ELSE {CROSSLOCALE_OK}

(* ~FfiBackend: frees the handle once; an exception leaving the destructor *)
(* ends the process (std::terminate).                                      *)
FfiBackend_dtor ==
  IF raw # nullptr
    THEN \E res \in crosslocale_backend_free_results :
           /\ raw' = nullptr
           /\ freeCalls' = freeCalls + 1
           /\ closed' = closed
           /\ worker' = IF worker = "running" THEN "exited" ELSE worker
           /\ outbound' = <<>>
           /\ inbound' = <<>>
           /\ process' = IF throw_ffi_result(res).threw
                           THEN "terminated" ELSE process
    ELSE UNCHANGED <<raw, freeCalls, closed, worker, outbound, inbound, process>>

(* One owner of the shared_ptr<FfiBackend> goes away; the last one destroys *)
(* the FfiBackend.                                                          *)
shared_ptr_release ==
  /\ refs' = refs - 1
  /\ IF refs = 1
       THEN FfiBackend_dtor
       ELSE UNCHANGED <<raw, freeCalls, closed, worker, outbound, inbound,
                        process>>

(* The NodeBackend object is garbage collected: ~NodeBackend drops inner. *)
NodeBackend_finalize ==
  /\ MainIdle
  /\ nodeBackend = "live"
  /\ nodeBackend' = "finalized"
  /\ shared_ptr_release
  /\ UNCHANGED <<mutex, pc, result, lateRecv, lastCall, closes>>
  /\ UNCHANGED histVars
  /\ UNCHANGED <<moduleVars, ownVars, codecVars, callback>>

(* crosslocale_backend_send_message: the sender half of the outbound       *)
(* channel; fails once closed or once the receiving end is gone.           *)
crosslocale_backend_send_message(m) ==
  IF closed \/ worker # "running"
    THEN [res |-> CROSSLOCALE_ERR_BACKEND_DISCONNECTED, outbound |-> outbound]
    ELSE [res |-> CROSSLOCALE_OK, outbound |-> Append(outbound, m)]

(* crosslocale_backend_close: closes the sender half; a no-op when closed. *)
crosslocale_backend_close ==
  [res |-> CROSSLOCALE_OK, closed |-> TRUE]

(* crosslocale_backend_is_closed: closed by the caller or by the backend. *)
crosslocale_backend_is_closed ==
  [res |-> CROSSLOCALE_OK, out |-> closed \/ WorkerGone]

(* send_message guarded by the one mutex recv_message holds. *)
send_message_guard_recv == "recv_mutex"

(* The mutex each FfiBackend method guards itself with. *)
recv_message_guard == "recv_mutex"
send_message_guard == "send_mutex"
close_guard == "send_mutex"
is_closed_guard == "send_mutex"

(* A lock_guard taken and dropped within one non-blocking call. *)
guarded(m) == mutex[m] = {}

(* The life of a message on the host, as the list of what was done to it. *)
(* A BackendMessageFromJs is built by from_js_value_impl, read through      *)
(* get_raw by the call it is passed to, and released by its destructor      *)
(* with free_raw_value; a BackendMessageFromRust wraps what                 *)
(* crosslocale_backend_recv_message wrote, is read by to_js_value and is    *)
(* released by its destructor with crosslocale_message_free.                *)
BackendMessageFromJs_ctor == <<"from_js_value_impl">>

get_raw(log) == Append(log, "crosslocale_backend_send_message")

BackendMessageFromJs_dtor(log) == Append(log, "free_raw_value")

BackendMessageFromRust_ctor(log) == Append(log, "BackendMessageFromRust")

to_js_value(log) == Append(log, "to_js_value")

(* ~BackendMessageFromRust releasing nothing. *)
BackendMessageFromRust_dtor_leak(log) == log

BackendMessageFromRust_dtor(log) == Append(log, "crosslocale_message_free")

(* FfiBackend::send_message with the result of the call dropped. *)
FfiBackend_send_message_unchecked(m) ==
  LET r == crosslocale_backend_send_message(m) IN
  [exc |-> [threw |-> FALSE, code |-> CROSSLOCALE_OK], outbound |-> r.outbound]

(* FfiBackend::send_message making the call a second time after it succeeded. *)
FfiBackend_send_message_twice(m) ==
  LET r == crosslocale_backend_send_message(m) IN
  [exc |-> throw_ffi_result(r.res),
   outbound |-> IF r.res = CROSSLOCALE_OK THEN Append(r.outbound, m)
                                          ELSE r.outbound]

(* FfiBackend::send_message *)
FfiBackend_send_message(m) ==
  LET r == crosslocale_backend_send_message(m) IN
  [exc |-> throw_ffi_result(r.res), outbound |-> r.outbound]

(* FfiBackend::close treating a closed handle as send_message does. *)
FfiBackend_close_once ==
  LET r == crosslocale_backend_close IN
  [exc |-> throw_ffi_result(IF closed
                              THEN CROSSLOCALE_ERR_BACKEND_DISCONNECTED
                              ELSE r.res),
   closed |-> r.closed]

(* FfiBackend::close *)
FfiBackend_close ==
  LET r == crosslocale_backend_close IN
  [exc |-> throw_ffi_result(r.res), closed |-> r.closed]

(* FfiBackend::is_closed returning its initial result, the call's output *)
(* lost.                                                                 *)
FfiBackend_is_closed_false ==
  LET r == crosslocale_backend_is_closed IN
  [exc |-> throw_ffi_result(r.res), result |-> FALSE]

(* FfiBackend::is_closed: result starts false and is written by the call. *)
FfiBackend_is_closed ==
  LET r == crosslocale_backend_is_closed IN
  [exc |-> throw_ffi_result(r.res), result |-> r.out]

(* NodeBackend::send_message *)
NodeBackend_send_message ==
  /\ MainIdle
  /\ nodeBackend = "live"
  /\ sendCount < MaxSends
  /\ guarded(send_message_guard)
  /\ LET m == sendCount + 1
         r == FfiBackend_send_message(m) IN
       /\ outbound' = r.outbound
       /\ sendCount' = m
       /\ sentOk' = IF r.exc.threw THEN sentOk ELSE Append(sentOk, m)
       /\ lastCall' = Call("send_message", r.exc, FALSE, m)
       /\ fromJs' = Append(fromJs,
                           BackendMessageFromJs_dtor(
                             get_raw(BackendMessageFromJs_ctor)))
       /\ UNCHANGED fromRust
  /\ UNCHANGED <<nodeBackend, refs, raw, mutex, pc, result, lateRecv,
                 closes, process, closed, worker, inbound, freeCalls,
                 workerSeen, produced, delivered>>
  /\ UNCHANGED <<moduleVars, codecVars, callback>>

(* NodeBackend::close *)
NodeBackend_close ==
  /\ MainIdle
  /\ nodeBackend = "live"
  /\ guarded(close_guard)
  /\ LET r == FfiBackend_close IN
       /\ closed' = r.closed
       /\ closes' = IF r.exc.threw \/ closes = 2 THEN closes ELSE closes + 1
       /\ lastCall' = Call("close", r.exc, FALSE, 0)
  /\ UNCHANGED <<nodeBackend, refs, raw, mutex, pc, result, lateRecv, process,
                 worker, outbound, inbound, freeCalls>>
  /\ UNCHANGED histVars
  /\ UNCHANGED <<moduleVars, ownVars, codecVars, callback>>

(* NodeBackend::is_closed *)
NodeBackend_is_closed ==
  /\ MainIdle
  /\ nodeBackend = "live"
  /\ guarded(is_closed_guard)
  /\ LET r == FfiBackend_is_closed IN
       lastCall' = Call("is_closed", r.exc, r.result, 0)
  /\ UNCHANGED <<nodeBackend, refs, raw, mutex, pc, result, lateRecv,
                 closes, process>>
  /\ UNCHANGED ffiVars
  /\ UNCHANGED histVars
  /\ UNCHANGED <<moduleVars, ownVars, codecVars, callback>>

(* NodeRecvMessageWorker keeping a plain pointer: no owner is added. *)
NodeRecvMessageWorker_inner_raw == refs

(* NodeRecvMessageWorker::NodeRecvMessageWorker: inner is a copy of the *)
(* shared_ptr, one more owner.                                          *)
NodeRecvMessageWorker_inner == refs + 1

(* NodeBackend::recv_message: a new NodeRecvMessageWorker is queued. *)
NodeBackend_recv_message ==
  /\ MainIdle
  /\ nodeBackend = "live"
  /\ \E w \in Workers :
       /\ pc[w] = "unborn"
       /\ \A v \in Workers : v < w => pc[v] # "unborn"
       /\ pc' = [pc EXCEPT ![w] = "queued"]
  /\ refs' = NodeRecvMessageWorker_inner
  /\ lastCall' = Call("recv_message", [threw |-> FALSE, code |-> CROSSLOCALE_OK],
                      FALSE, 0)
  /\ UNCHANGED <<nodeBackend, raw, mutex, result, lateRecv, closes,
                 process>>
  /\ UNCHANGED ffiVars
  /\ UNCHANGED histVars
  /\ UNCHANGED <<moduleVars, ownVars, codecVars, callback>>

(* FfiBackend::recv_message with a lock_guard that guards nothing. *)
recv_message_nolock(r) == mutex' = mutex

(* FfiBackend::recv_message: the lock_guard on recv_mutex. *)
recv_message_lock(r) == lock(recv_message_guard, r)

(* FfiBackend::recv_message is entered: the caller waits for recv_mutex and *)
(* goes on into crosslocale_backend_recv_message.                           *)
FfiBackend_recv_message_enter(r) ==
  /\ recv_message_lock(r)
  /\ pc' = [pc EXCEPT ![r] = "call"]
  /\ result' = [result EXCEPT ![r] = NoResult]
  /\ lateRecv' = [lateRecv EXCEPT ![r] = WorkerGone]
  /\ UNCHANGED <<nodeBackend, refs, raw, lastCall, closes, process>>
  /\ UNCHANGED ffiVars
  /\ UNCHANGED histVars
  /\ UNCHANGED <<moduleVars, ownVars, codecVars, callback>>

(* NodeRecvMessageWorker::Execute runs on a pool thread and calls *)
(* FfiBackend::recv_message.                                      *)
NodeRecvMessageWorker_Execute(w) ==
  /\ process = "running"
  /\ w \in Workers
  /\ pc[w] = "queued"
  /\ FfiBackend_recv_message_enter(w)

(* NodeBackend::recv_message_sync calls FfiBackend::recv_message on the *)
(* main thread, which runs nothing else until the call returns.         *)
NodeBackend_recv_message_sync ==
  /\ MainIdle
  /\ nodeBackend = "live"
  /\ pc' = [pc EXCEPT ![Main] = "lock"]
  /\ UNCHANGED <<nodeBackend, refs, raw, mutex, result, lateRecv, lastCall,
                 closes, process>>
  /\ UNCHANGED ffiVars
  /\ UNCHANGED histVars
  /\ UNCHANGED <<moduleVars, ownVars, codecVars, callback>>

NodeBackend_recv_message_sync_enter ==
  /\ process = "running"
  /\ pc[Main] = "lock"
  /\ FfiBackend_recv_message_enter(Main)

(* crosslocale_backend_recv_message: blocks until the inbound channel holds *)
(* a message or is disconnected; buffered messages come first.  The         *)
(* receiver half is not synchronized: the call reads the head here and      *)
(* removes it when it returns.                                              *)
crosslocale_backend_recv_message(r) ==
  /\ process = "running"
  /\ pc[r] = "call"
  /\ \/ /\ inbound # <<>>
        /\ result' = [result EXCEPT ![r].res = CROSSLOCALE_OK,
                                    ![r].msg = Head(inbound)]
     \/ /\ inbound = <<>>
        /\ worker # "running"
        /\ result' = [result EXCEPT
                        ![r].res = CROSSLOCALE_ERR_BACKEND_DISCONNECTED,
                        ![r].msg = 0]
  /\ pc' = [pc EXCEPT ![r] = "ret"]
  /\ UNCHANGED <<nodeBackend, refs, raw, mutex, lateRecv, lastCall,
                 closes, process>>
  /\ UNCHANGED ffiVars
  /\ UNCHANGED histVars
  /\ UNCHANGED <<moduleVars, ownVars, codecVars, callback>>

(* The inbound channel once the message a call returns is taken off it. *)
crosslocale_backend_recv_message_take(res) ==
  IF res = CROSSLOCALE_OK /\ inbound # <<>> THEN Tail(inbound) ELSE inbound

(* The catch of Execute with has_error left false. *)
NodeRecvMessageWorker_Execute_catch_unset(exc) ==
  [has_error |-> FALSE, error |-> exc.code]

(* NodeRecvMessageWorker::Execute: has_error and error after the try. *)
NodeRecvMessageWorker_Execute_catch(exc) ==
  [has_error |-> exc.threw, error |-> exc.code]

(* FfiBackend::recv_message returns the message or throws, dropping the *)
(* lock_guard; in a worker this ends Execute, on the main thread it ends *)
(* recv_message_sync.                                                    *)
FfiBackend_recv_message_return(r) ==
  /\ process = "running"
  /\ pc[r] = "ret"
  /\ unlock(recv_message_guard, r)
  /\ inbound' = crosslocale_backend_recv_message_take(result[r].res)
  /\ LET exc == throw_ffi_result(result[r].res) IN
       /\ delivered' = IF exc.threw THEN delivered
                       ELSE Append(delivered, result[r].msg)
       /\ fromRust' =
            IF exc.threw THEN fromRust
            ELSE [fromRust EXCEPT
                    ![result[r].msg] =
                       IF r = Main
                         THEN BackendMessageFromRust_dtor(
                                to_js_value(BackendMessageFromRust_ctor(@)))
                         ELSE BackendMessageFromRust_ctor(@)]
       /\ UNCHANGED fromJs
       /\ IF r = Main
            THEN /\ pc' = [pc EXCEPT ![r] = "idle"]
                 /\ result' = [result EXCEPT ![r] = NoResult]
                 /\ lastCall' = Call("recv_message_sync", exc, FALSE,
                                     result[r].msg)
            ELSE /\ pc' = [pc EXCEPT ![r] = "done"]
                 /\ result' =
                      [result EXCEPT
                         ![r].threw =
                            NodeRecvMessageWorker_Execute_catch(exc).has_error,
                         ![r].code =
                            NodeRecvMessageWorker_Execute_catch(exc).error]
                 /\ UNCHANGED lastCall
  /\ lateRecv' = [lateRecv EXCEPT ![r] = FALSE]
  /\ UNCHANGED <<nodeBackend, refs, raw, closes, process, closed, worker,
                 outbound, freeCalls, sendCount, sentOk, workerSeen, produced>>
  /\ UNCHANGED <<moduleVars, codecVars, callback>>

(* crosslocale_error_description and crosslocale_error_id_str: the text *)
(* and the symbolic id of a result code, one of each for every code.    *)
crosslocale_error_description(code) ==
  CASE code = CROSSLOCALE_OK -> "ok"
    [] code = CROSSLOCALE_ERR_GENERIC_RUST_PANIC -> "a generic Rust panic"
    [] code = CROSSLOCALE_ERR_BACKEND_DISCONNECTED ->
         "the backend thread has disconnected"
    [] code = CROSSLOCALE_ERR_SPAWN_THREAD_FAILED ->
         "failed to spawn the backend thread"

crosslocale_error_id_str(code) ==
  CASE code = CROSSLOCALE_OK -> "OK"
    [] code = CROSSLOCALE_ERR_GENERIC_RUST_PANIC -> "GENERIC_RUST_PANIC"
    [] code = CROSSLOCALE_ERR_BACKEND_DISCONNECTED -> "BACKEND_DISCONNECTED"
    [] code = CROSSLOCALE_ERR_SPAWN_THREAD_FAILED -> "SPAWN_THREAD_FAILED"

(* FfiBackendException::to_node_error with the errno left out. *)
to_node_error_no_errno(code) ==
  [type |-> "Error", message |-> crosslocale_error_description(code),
   errno |-> CROSSLOCALE_OK, code |-> crosslocale_error_id_str(code)]

(* FfiBackendException::to_node_error *)
to_node_error(code) ==
  [type |-> "Error", message |-> crosslocale_error_description(code),
   errno |-> code, code |-> crosslocale_error_id_str(code)]

(* NodeRecvMessageWorker::GetResult: the arguments of the callback; the *)
(* JS value of message msg is written [type |-> "value", of |-> msg].   *)
NodeRecvMessageWorker_GetResult(has_error, error, msg) ==
  IF ~has_error
    THEN <<[type |-> "null"], [type |-> "value", of |-> msg]>>
    ELSE <<to_node_error(error)>>

(* Back on the main thread: the callback is called with GetResult and the *)
(* worker is deleted, its shared_ptr with it.                             *)
NodeRecvMessageWorker_OnOK_step(w) ==
  /\ MainIdle
  /\ w \in Workers
  /\ pc[w] = "done"
  /\ pc' = [pc EXCEPT ![w] = "destroyed"]
  /\ result' = [result EXCEPT ![w] = NoResult]
  /\ fromRust' =
       IF result[w].threw THEN fromRust
       ELSE [fromRust EXCEPT
               ![result[w].msg] = BackendMessageFromRust_dtor(to_js_value(@))]
  /\ UNCHANGED fromJs
  /\ shared_ptr_release
  /\ UNCHANGED <<nodeBackend, mutex, lateRecv, lastCall, closes>>
  /\ UNCHANGED histVars
  /\ UNCHANGED <<moduleVars, codecVars>>

(* The completion with the arguments of the call left out of the state. *)
NodeRecvMessageWorker_OnOK(w) ==
  /\ NodeRecvMessageWorker_OnOK_step(w)
  /\ UNCHANGED callback

(* The completion with the arguments of the call kept: Callback().Call(
   GetResult(env)) of Napi::AsyncWorker::OnOK, with the worker's has_error,
   error and message as Execute left them. *)
NodeRecvMessageWorker_OnOK_Call(w) ==
  /\ NodeRecvMessageWorker_OnOK_step(w)
  /\ callback' = [callback EXCEPT
                    ![w] = Append(@, NodeRecvMessageWorker_GetResult(
                                       result[w].threw, result[w].code,
                                       result[w].msg))]

(* The backend thread: takes the next outbound message. *)
WorkerConsume ==
  /\ process = "running"
  /\ worker = "running"
  /\ outbound # <<>>
  /\ workerSeen' = Append(workerSeen, Head(outbound))
  /\ outbound' = Tail(outbound)
  /\ UNCHANGED <<nodeBackend, refs, raw, mutex, pc, result, lateRecv, lastCall,
                 closes, process, closed, worker, inbound, freeCalls,
                 sendCount, sentOk, produced, delivered>>
  /\ UNCHANGED <<moduleVars, ownVars, codecVars, callback>>

(* The backend thread: produces the next inbound message. *)
WorkerProduce ==
  /\ process = "running"
  /\ worker = "running"
  /\ produced < MaxMsgs
  /\ produced' = produced + 1
  /\ inbound' = Append(inbound, produced + 1)
  /\ UNCHANGED <<nodeBackend, refs, raw, mutex, pc, result, lateRecv, lastCall,
                 closes, process, closed, worker, outbound, freeCalls,
                 sendCount, sentOk, workerSeen, delivered>>
  /\ UNCHANGED <<moduleVars, ownVars, codecVars, callback>>

(* The backend thread ends: it winds down after a close, or it panics. *)
WorkerTerminate ==
  /\ process = "running"
  /\ worker = "running"
  /\ \E how \in {"exited", "panicked"} : worker' = how
  /\ UNCHANGED <<nodeBackend, refs, raw, mutex, pc, result, lateRecv, lastCall,
                 closes, process, closed, outbound, inbound, freeCalls>>
  /\ UNCHANGED histVars
  /\ UNCHANGED <<moduleVars, ownVars, codecVars, callback>>

Next ==
  \/ NODE_API_MODULE_Init
  \/ NodeBackend_new
  \/ NodeBackend_finalize
  \/ NodeBackend_send_message
  \/ NodeBackend_close
  \/ NodeBackend_is_closed
  \/ NodeBackend_recv_message
  \/ NodeBackend_recv_message_sync
  \/ \E w \in Workers : NodeRecvMessageWorker_Execute(w)
  \/ NodeBackend_recv_message_sync_enter
  \/ \E r \in Receivers : crosslocale_backend_recv_message(r)
  \/ \E r \in Receivers : FfiBackend_recv_message_return(r)
  \/ \E w \in Workers : NodeRecvMessageWorker_OnOK(w)
  \/ WorkerConsume
  \/ WorkerProduce
  \/ WorkerTerminate

Spec == Init /\ [][Next]_vars

(* The receiving side of the program with the arguments of every callback *)
(* call kept. send_message and the backend thread's take from outbound    *)
(* are left out: they write outbound, sendCount, sentOk, workerSeen,      *)
(* fromJs and lastCall, and no step of a receive reads any of these.      *)
CallbackNext ==
  \/ NODE_API_MODULE_Init
  \/ NodeBackend_new
  \/ NodeBackend_finalize
  \/ NodeBackend_close
  \/ NodeBackend_is_closed
  \/ NodeBackend_recv_message
  \/ NodeBackend_recv_message_sync
  \/ \E w \in Workers : NodeRecvMessageWorker_Execute(w)
  \/ NodeBackend_recv_message_sync_enter
  \/ \E r \in Receivers : crosslocale_backend_recv_message(r)
  \/ \E r \in Receivers : FfiBackend_recv_message_return(r)
  \/ \E w \in Workers : NodeRecvMessageWorker_OnOK_Call(w)
  \/ WorkerProduce
  \/ WorkerTerminate

(* The event loop runs a finished worker's completion each time the main *)
(* thread returns to it.                                                 *)
CallbackSpec ==
  /\ Init /\ [][CallbackNext]_vars
  /\ \A w \in Workers : SF_vars(NodeRecvMessageWorker_OnOK_Call(w))

(* A call that has entered crosslocale_backend_recv_message is not left    *)
(* waiting once it can return, and its result reaches the caller; nothing  *)
(* is assumed of the backend thread or of the JS code.                     *)
FairSpec ==
  /\ Spec
  /\ \A r \in Receivers : WF_vars(crosslocale_backend_recv_message(r))
  /\ \A r \in Receivers : WF_vars(FfiBackend_recv_message_return(r))

(* ---------------------------------------------------------------------- *)
(* The conversion of values: BackendMessage::to_js_value_impl and          *)
(* BackendMessageFromJs::from_js_value_impl.                               *)
(*                                                                         *)
(* A double is written as the integer h of halves it stands for (h / 2);   *)
(* only the h that a significand of MantBits bits holds exactly are        *)
(* doubles.  int64_t and uint64_t have IntBits bits.                       *)

RECURSIVE Pow2(_)
Pow2(n) == IF n = 0 THEN 1 ELSE 2 * Pow2(n - 1)
Abs(n) == IF n < 0 THEN -n ELSE n
Sign(n) == IF n < 0 THEN -1 ELSE 1

INT64_MIN == -Pow2(IntBits - 1)
INT64_MAX == Pow2(IntBits - 1) - 1
UINT64_MAX == Pow2(IntBits) - 1

(* The unit in the last place of the double nearest to a halves, a >= 0. *)
RECURSIVE Ulp(_)
Ulp(a) == IF a < Pow2(MantBits) THEN 1 ELSE 2 * Ulp(a \div 2)

IsDouble(h) == Abs(h) % Ulp(Abs(h)) = 0

(* (double)n for an integer n: the nearest double, ties to the even *)
(* significand.                                                     *)
int64_to_double(n) ==
  LET a == 2 * Abs(n)
      u == Ulp(a)
      q == a \div u
      r == a % u
      up == IF 2 * r > u THEN TRUE
            ELSE IF 2 * r < u THEN FALSE
            ELSE q % 2 = 1
  IN  Sign(n) * (IF up THEN (q + 1) * u ELSE q * u)

(* The double h with its fractional part discarded. *)
Trunc(h) == Sign(h) * (Abs(h) \div 2)

(* (uint64_t)n_float.  The conversion is defined when the truncated value *)
(* is a uint64_t; otherwise the behaviour is undefined and the builds     *)
(* differ: the conversion wraps modulo 2^64 (cvttsd2si on x86-64, for a   *)
(* value that is an int64_t) or saturates (fcvtzu on AArch64).            *)
double_to_uint64(h) ==
  LET t == Trunc(h) IN
  IF 0 <= t /\ t <= UINT64_MAX
    THEN {t}
    ELSE {t % Pow2(IntBits), IF t < 0 THEN 0 ELSE UINT64_MAX}

(* int64_t n_int = (uint64_t)...: the same 64 bits read as signed. *)
uint64_to_int64(u) == IF u > INT64_MAX THEN u - Pow2(IntBits) ELSE u

(* A crosslocale_message: its type and the member of the union in use;  *)
(* a list is the sequence value_list, a dict the two sequences keys and  *)
(* values, of the same length.                                           *)
Nil == [type |-> CROSSLOCALE_MESSAGE_NIL]
Bool(b) == [type |-> CROSSLOCALE_MESSAGE_BOOL, value_bool |-> b]
I64(n) == [type |-> CROSSLOCALE_MESSAGE_I64, value_i64 |-> n]
F64(h) == [type |-> CROSSLOCALE_MESSAGE_F64, value_f64 |-> h]
Str(s) == [type |-> CROSSLOCALE_MESSAGE_STR, value_str |-> s]
List(l) == [type |-> CROSSLOCALE_MESSAGE_LIST, value_list |-> l]
Dict(k, v) == [type |-> CROSSLOCALE_MESSAGE_DICT, keys |-> k, values |-> v]
Invalid == [type |-> CROSSLOCALE_MESSAGE_INVALID]

(* A JS value: its napi_valuetype and what it holds.  An array holds its  *)
(* elements; any other object holds its own enumerable properties in the  *)
(* order GetPropertyNames lists them.                                     *)
JsUndefined == [type |-> "napi_undefined"]
JsNull == [type |-> "napi_null"]
JsBoolean(b) == [type |-> "napi_boolean", b |-> b]
JsNumber(h) == [type |-> "napi_number", n |-> h]
JsString(s) == [type |-> "napi_string", s |-> s]
JsArray(l) == [type |-> "napi_object", IsArray |-> TRUE, elements |-> l]
JsObject(k, v) ==
  [type |-> "napi_object", IsArray |-> FALSE, names |-> k, props |-> v]
JsOther(t) == [type |-> t]

(* std::logic_error out of to_js_value_impl. *)
logic_error == [type |-> "logic_error"]

(* Property names that are array indices, and the index each one is: JS *)
(* lists these first, in ascending order, then the other names in the   *)
(* order they were added.                                               *)
ArrayIndex == [k \in {"0", "1"} |-> IF k = "0" THEN 0 ELSE 1]

(* Where js_object.Set puts a name the object does not have yet. *)
Object_Set_place(names, key) ==
  IF key \in DOMAIN ArrayIndex
    THEN Cardinality({i \in 1..Len(names) :
                        /\ names[i] \in DOMAIN ArrayIndex
                        /\ ArrayIndex[names[i]] < ArrayIndex[key]}) + 1
    ELSE Len(names) + 1

InsertAt(seq, i, x) ==
  SubSeq(seq, 1, i - 1) \o <<x>> \o SubSeq(seq, i, Len(seq))

(* js_object.Set(key, value): a name the object has keeps its place and *)
(* gets the new value.                                                   *)
Object_Set(obj, key, value) ==
  IF \E i \in 1..Len(obj.names) : obj.names[i] = key
    THEN LET i == CHOOSE i \in 1..Len(obj.names) : obj.names[i] = key
         IN  JsObject(obj.names, [obj.props EXCEPT ![i] = value])
    ELSE LET i == Object_Set_place(obj.names, key)
         IN  JsObject(InsertAt(obj.names, i, key),
                      InsertAt(obj.props, i, value))

(* Napi::Value(): the empty value to_js_value_impl returns for a type it *)
(* does not know.                                                        *)
JsEmpty == [type |-> "empty"]

(* Napi::String::New(env, ptr, len): the JS string of UTF-8 bytes. A     *)
(* string is named by its text when it is ASCII, where the bytes and the *)
(* code units are the same; "<FFFD>" is the replacement character and    *)
(* "<EF><BF><BD>" the three bytes of it.                                  *)
String_New(bytes) ==
  CASE bytes = "<EF><BF><BD>" -> "<FFFD>"
    [] OTHER -> bytes

(* Napi::Number::New(env, (double)raw.as.value_i64) *)
Number_New_i64(n) == JsNumber(int64_to_double(n))

RECURSIVE to_js_value_impl(_)
RECURSIVE to_js_value_dict(_, _, _)

(* BackendMessage::to_js_value_impl, the case CROSSLOCALE_MESSAGE_DICT: *)
(* the pairs from the i-th on are set on js_object.                     *)
to_js_value_dict(msg, js_object, i) ==
  IF i > Len(msg.keys)
    THEN js_object
    ELSE LET js_value == to_js_value_impl(msg.values[i]) IN
         IF js_value = logic_error THEN logic_error
         ELSE to_js_value_dict(
                msg,
                IF js_value = JsEmpty THEN js_object
                ELSE Object_Set(js_object, String_New(msg.keys[i]), js_value),
                i + 1)

(* BackendMessage::to_js_value_impl *)
to_js_value_impl(msg) ==
  CASE msg.type = CROSSLOCALE_MESSAGE_NIL -> JsNull
    [] msg.type = CROSSLOCALE_MESSAGE_BOOL -> JsBoolean(msg.value_bool)
    [] msg.type = CROSSLOCALE_MESSAGE_I64 -> Number_New_i64(msg.value_i64)
    [] msg.type = CROSSLOCALE_MESSAGE_F64 -> JsNumber(msg.value_f64)
    [] msg.type = CROSSLOCALE_MESSAGE_STR -> JsString(String_New(msg.value_str))
    [] msg.type = CROSSLOCALE_MESSAGE_LIST ->
         LET js_array == [i \in 1..Len(msg.value_list) |->
                            to_js_value_impl(msg.value_list[i])]
         IN  IF \E i \in 1..Len(js_array) : js_array[i] = logic_error
               THEN logic_error
               ELSE JsArray([i \in 1..Len(js_array) |->
                               IF js_array[i] = JsEmpty THEN JsUndefined
                               ELSE js_array[i]])
    [] msg.type = CROSSLOCALE_MESSAGE_DICT ->
         to_js_value_dict(msg, JsObject(<<>>, <<>>), 1)
    [] msg.type = CROSSLOCALE_MESSAGE_INVALID -> logic_error
    [] OTHER -> JsEmpty

(* BackendMessage::to_js_value *)
BackendMessage_to_js_value(msg) ==
  LET js_value == to_js_value_impl(msg) IN
  IF js_value = JsEmpty THEN JsUndefined ELSE js_value

(* What an element of new crosslocale_message[len], or of                *)
(* new crosslocale_message_str[len], holds when nothing was assigned to it: *)
(* the value is indeterminate, whoever reads the entry may find any.      *)
Uninitialized == {Nil, Invalid, Str("?")}
UninitializedStr == {"", "?"}

(* The sequences that take their i-th element from the i-th set. *)
RECURSIVE Product(_)
Product(sets) ==
  IF sets = <<>> THEN {<<>>}
  ELSE {<<x>> \o rest : x \in Head(sets), rest \in Product(Tail(sets))}

(* BackendMessageFromJs::from_js_str: the UTF-8 bytes of the string;  *)
(* napi_get_value_string_utf8 writes the replacement character for a  *)
(* surrogate that has no partner ("<D800>").                          *)
from_js_str(value) ==
  CASE value \in {"<D800>", "<FFFD>"} -> "<EF><BF><BD>"
    [] OTHER -> value

(* from_js_value_impl, the case napi_number always giving Float64. *)
from_js_number_f64(n_float) == {F64(n_float)}

(* BackendMessageFromJs::from_js_value_impl, the case napi_number: one *)
(* message for each outcome of the conversion to uint64_t.             *)
from_js_number(n_float) ==
  {LET n_int == uint64_to_int64(u) IN
     IF int64_to_double(n_int) = n_float THEN I64(n_int) ELSE F64(n_float) :
   u \in double_to_uint64(n_float)}

(* data[i] after the loop: the element if it is not INVALID, else what *)
(* the array was created with.                                         *)
list_entry(elements) ==
  {e \in elements : e.type # CROSSLOCALE_MESSAGE_INVALID}
    \cup (IF \E e \in elements : e.type = CROSSLOCALE_MESSAGE_INVALID
            THEN Uninitialized ELSE {})

(* keys[i] and values[i] after the loop. *)
dict_entry(js_key, values) ==
  {<<from_js_str(js_key), v>> :
     v \in {e \in values : e.type # CROSSLOCALE_MESSAGE_INVALID}}
    \cup (IF \E e \in values : e.type = CROSSLOCALE_MESSAGE_INVALID
            THEN UninitializedStr \X Uninitialized ELSE {})

(* BackendMessageFromJs::from_js_value_impl: the messages it may return. *)
RECURSIVE from_js_value_impl(_)
from_js_value_impl(js_value) ==
  CASE js_value.type \in {"napi_undefined", "napi_null"} -> {Nil}
    [] js_value.type = "napi_boolean" -> {Bool(js_value.b)}
    [] js_value.type = "napi_number" -> from_js_number(js_value.n)
    [] js_value.type = "napi_string" -> {Str(from_js_str(js_value.s))}
    [] js_value.type = "napi_object" ->
         IF js_value.IsArray
           THEN LET len == Len(js_value.elements)
                    data == [i \in 1..len |->
                               list_entry(
                                 from_js_value_impl(js_value.elements[i]))]
                IN  {List(l) : l \in Product(data)}
           ELSE LET len == Len(js_value.names)
                    pairs == [i \in 1..len |->
                                dict_entry(
                                  js_value.names[i],
                                  from_js_value_impl(js_value.props[i]))]
                IN  {Dict([i \in 1..len |-> d[i][1]],
                          [i \in 1..len |-> d[i][2]]) :
                     d \in Product(pairs)}
    [] OTHER -> {Invalid}

(* The memory of a message.  An entry of a message is named by its path: *)
(* <<>> is BackendMessage::raw, Append(p, i) the i-th element of the List *)
(* or the i-th pair of the Dict at p.  A block made with new[] is named   *)
(* by the path of the entry that points to it and by what it is: "str",   *)
(* "list", "keys", "values", and "key" for the bytes of a pair's key.      *)

(* from_js_value_impl: the blocks it allocates with new[]. *)
RECURSIVE from_js_value_allocated(_, _)
from_js_value_allocated(js_value, p) ==
  CASE js_value.type = "napi_string" -> {<<p, "str">>}
    [] js_value.type = "napi_object" ->
         IF js_value.IsArray
           THEN {<<p, "list">>}
                  \cup UNION {from_js_value_allocated(js_value.elements[i],
                                                      Append(p, i)) :
                              i \in 1..Len(js_value.elements)}
           ELSE {<<p, "keys">>, <<p, "values">>}
                  \cup {<<Append(p, i), "key">> :
                          i \in {j \in 1..Len(js_value.names) :
                                   Invalid \notin
                                     from_js_value_impl(js_value.props[j])}}
                  \cup UNION {from_js_value_allocated(js_value.props[i],
                                                      Append(p, i)) :
                              i \in 1..Len(js_value.names)}
    [] OTHER -> {}

(* from_js_value_impl: the entries below p that it assigns (data[i] =    *)
(* element; keys[i] = key, values[i] = value), each only if the child is *)
(* not INVALID.                                                          *)
RECURSIVE from_js_value_written(_, _)
from_js_value_written(js_value, p) ==
  IF js_value.type # "napi_object" THEN {}
  ELSE LET children == IF js_value.IsArray THEN js_value.elements
                                            ELSE js_value.props
       IN  {Append(p, i) :
              i \in {j \in 1..Len(children) :
                       Invalid \notin from_js_value_impl(children[j])}}
             \cup UNION {from_js_value_written(children[i], Append(p, i)) :
                         i \in 1..Len(children)}

(* BackendMessageFromJs(env, value): raw itself is assigned by the *)
(* constructor of BackendMessage.                                  *)
BackendMessageFromJs_heap(js_value) ==
  [allocated |-> from_js_value_allocated(js_value, <<>>),
   written |-> {<<>>} \cup from_js_value_written(js_value, <<>>)]

(* What a free has done: the entries it read, the blocks it released. *)
Freed(read, released) == [read |-> read, released |-> released]
Then(a, b) == Freed(a.read \cup b.read, a.released \o b.released)

RECURSIVE free_raw_value(_, _)
RECURSIVE free_raw_list(_, _, _)
RECURSIVE free_raw_dict(_, _, _)

(* free_raw_value, the loop of the case CROSSLOCALE_MESSAGE_LIST from i on. *)
free_raw_list(msg, p, i) ==
  IF i > Len(msg.value_list) THEN Freed({}, <<>>)
  ELSE Then(free_raw_value(msg.value_list[i], Append(p, i)),
            free_raw_list(msg, p, i + 1))

(* free_raw_value, the loop of the case CROSSLOCALE_MESSAGE_DICT from i on. *)
free_raw_dict(msg, p, i) ==
  IF i > Len(msg.keys) THEN Freed({}, <<>>)
  ELSE Then(Freed({Append(p, i)}, <<<<Append(p, i), "key">>>>),
            Then(free_raw_value(msg.values[i], Append(p, i)),
                 free_raw_dict(msg, p, i + 1)))

(* BackendMessageFromJs::free_raw_value on the entry at p, which holds msg. *)
free_raw_value(msg, p) ==
  CASE msg.type = CROSSLOCALE_MESSAGE_STR -> Freed({p}, <<<<p, "str">>>>)
    [] msg.type = CROSSLOCALE_MESSAGE_LIST ->
         Then(Freed({p}, <<>>),
              Then(free_raw_list(msg, p, 1), Freed({}, <<<<p, "list">>>>)))
    [] msg.type = CROSSLOCALE_MESSAGE_DICT ->
         Then(Freed({p}, <<>>),
              Then(free_raw_dict(msg, p, 1),
                   Freed({}, <<<<p, "keys">>, <<p, "values">>>>)))
    [] OTHER -> Freed({p}, <<>>)

(* ---------------------------------------------------------------------- *)
(* The values the conversions are run on.                                  *)

(* The sequences over S of length at most n. *)
SeqsUpTo(S, n) == UNION {[1..k -> S] : k \in 0..n}

Unrepresentable ==
  {"napi_symbol", "napi_function", "napi_external", "napi_bigint"}

(* Doubles, in halves: 3, 3.5, -3, -0.5, the largest integer below         *)
(* 2^MantBits, 2^63 and -2^63 (the first number past int64_t and the last  *)
(* one in it) and 2^64 (the first past uint64_t), at the model's widths.   *)
JsNumbers ==
  {6, 7, -6, -1, 2 * (Pow2(MantBits) - 1), 2 * (INT64_MAX + 1),
   2 * INT64_MIN, 2 * (UINT64_MAX + 1)}

JsAtoms ==
  {JsUndefined, JsNull, JsBoolean(TRUE), JsBoolean(FALSE), JsString("s"),
   JsString("<D800>")}
    \cup {JsNumber(h) : h \in JsNumbers}
    \cup {JsOther(t) : t \in Unrepresentable}

JsChildren ==
  {JsNull, JsBoolean(TRUE), JsNumber(6), JsString("s"),
   JsOther("napi_symbol"), JsOther("napi_function")}

JsNames == {"a", "b", "1"}

(* The object that has the given properties set on it one after another. *)
RECURSIVE Object_of(_, _, _)
Object_of(js_object, names, props) ==
  IF names = <<>> THEN js_object
  ELSE Object_of(Object_Set(js_object, Head(names), Head(props)),
                 Tail(names), Tail(props))

JsArrays == {JsArray(l) : l \in SeqsUpTo(JsChildren, MaxLen)}

JsObjects ==
  UNION {{Object_of(JsObject(<<>>, <<>>), k, v) :
            k \in [1..n -> JsNames], v \in [1..n -> JsChildren]} :
         n \in 0..MaxLen}

JsNested ==
  {JsArray(<<c>>) : c \in JsArrays \cup JsObjects}
    \cup {JsObject(<<"a">>, <<c>>) : c \in JsArrays}

JsValues == JsAtoms \cup JsArrays \cup JsObjects \cup JsNested

(* Messages of the backend: Int64 3, -3, the first integer no double    *)
(* holds and the largest one; Float64 3.5, 3.0, -3.5 and 2^63.          *)
RawAtoms ==
  {Nil, Bool(TRUE), Bool(FALSE), Str("s"), Str("<EF><BF><BD>"), Invalid,
   F64(7), F64(6), F64(-7), F64(2 * (INT64_MAX + 1))}
    \cup {I64(n) : n \in {k \in {3, -3, Pow2(MantBits) + 1, INT64_MAX} :
                             INT64_MIN <= k /\ k <= INT64_MAX}}

RawChildren == {Nil, I64(3), F64(7), F64(6), Str("s")}

RawKeys == {"a", "b", "0", "1"}

RawLists == {List(l) : l \in SeqsUpTo(RawChildren, MaxLen)}

RawDicts ==
  UNION {{Dict(k, v) : k \in [1..n -> RawKeys], v \in [1..n -> RawChildren]} :
         n \in 0..MaxLen}

RawNested ==
  {List(<<c>>) : c \in RawLists \cup RawDicts}
    \cup {Dict(<<"a">>, <<c>>) : c \in RawLists}
    \cup {List(<<Nil, Invalid>>)}

RawValues == RawAtoms \cup RawLists \cup RawDicts \cup RawNested

(* ---------------------------------------------------------------------- *)
(* The conversions at work: a Backend made by new Backend() in a loaded    *)
(* addon, its backend thread running, and either a message that            *)
(* recv_message has taken from the backend or a JS value that the caller   *)
(* of send_message holds.                                                  *)
CodecInit ==
  /\ CROSSLOCALE_FFI_BRIDGE_VERSION = SUPPORTED_FFI_BRIDGE_VERSION
  /\ addon = "loaded"
  /\ exports = Init_exports
  /\ fromJs = <<>>
  /\ fromRust = [m \in 1..MaxMsgs |-> <<>>]
  /\ callback = [w \in Workers |-> <<>>]
  /\ \/ /\ codec = "raw"
        /\ rawValue \in RawValues
        /\ jsValue = NoValue
     \/ /\ codec = "js"
        /\ rawValue = NoValue
        /\ jsValue \in JsValues
  /\ message = NoValue
  /\ heap = NoHeap
  /\ nodeBackend = "live"
  /\ refs = 1
  /\ raw = "handle"
  /\ mutex = [send_mutex |-> {}, recv_mutex |-> {}]
  /\ pc = [r \in Receivers |-> IF r = Main THEN "idle" ELSE "unborn"]
  /\ result = [r \in Receivers |-> NoResult]
  /\ lateRecv = [r \in Receivers |-> FALSE]
  /\ lastCall = Call("new", throw_ffi_result(CROSSLOCALE_OK), FALSE, 0)
  /\ closes = 0
  /\ process = "running"
  /\ closed = FALSE
  /\ worker = "running"
  /\ outbound = <<>>
  /\ inbound = <<>>
  /\ freeCalls = 0
  /\ sendCount = 0
  /\ sentOk = <<>>
  /\ workerSeen = <<>>
  /\ produced = 0
  /\ delivered = <<>>

(* message->to_js_value(env) in NodeRecvMessageWorker::GetResult and in *)
(* NodeBackend::recv_message_sync: the JS value of the message, or the  *)
(* std::logic_error.                                                    *)
BackendMessageFromRust_to_js_value ==
  /\ MainIdle
  /\ codec = "raw"
  /\ jsValue' = BackendMessage_to_js_value(rawValue)
  /\ codec' = IF jsValue' = logic_error THEN "threw" ELSE "decoded"
  /\ UNCHANGED <<nodeBackend, refs, raw, mutex, pc, result, lateRecv, lastCall,
                 closes, process, rawValue, message, heap>>
  /\ UNCHANGED <<ffiVars, histVars, moduleVars, ownVars, callback>>

(* NodeBackend::send_message(value): the message made of info[0] is what *)
(* crosslocale_backend_send_message is called with, whatever its type,  *)
(* and ~BackendMessageFromJs frees it when the method is left.          *)
NodeBackend_send_message_value ==
  /\ MainIdle
  /\ codec \in {"js", "decoded"}
  /\ nodeBackend = "live"
  /\ guarded(send_message_guard)
  /\ \E msg \in from_js_value_impl(jsValue) :
       LET r == FfiBackend_send_message(msg) IN
       /\ message' = msg
       /\ heap' = LET made == BackendMessageFromJs_heap(jsValue)
                      freed == free_raw_value(msg, <<>>)
                  IN  [allocated |-> made.allocated, written |-> made.written,
                       read |-> freed.read, released |-> freed.released]
       /\ outbound' = r.outbound
       /\ sendCount' = sendCount + 1
       /\ sentOk' = IF r.exc.threw THEN sentOk ELSE Append(sentOk, msg)
       /\ lastCall' = Call("send_message", r.exc, FALSE, 0)
       /\ fromJs' = Append(fromJs,
                           BackendMessageFromJs_dtor(
                             get_raw(BackendMessageFromJs_ctor)))
  /\ codec' = IF codec = "js" THEN "sent" ELSE "sent back"
  /\ UNCHANGED <<nodeBackend, refs, raw, mutex, pc, result, lateRecv,
                 closes, process, closed, worker, inbound, freeCalls,
                 workerSeen, produced, delivered, fromRust, rawValue, jsValue>>
  /\ UNCHANGED <<moduleVars, callback>>

CodecNext ==
  \/ BackendMessageFromRust_to_js_value
  \/ NodeBackend_send_message_value

CodecSpec == CodecInit /\ [][CodecNext]_vars

(* ---------------------------------------------------------------------- *)
(* Vocabulary of the properties.                                          *)

(* r is inside crosslocale_backend_recv_message. *)
InRecv(r) == pc[r] \in {"call", "ret"}

(* r is blocked in crosslocale_backend_recv_message: nothing to take and *)
(* the backend thread still there.                                       *)
Blocked(r) == pc[r] = "call" /\ inbound = <<>> /\ worker = "running"

(* What a recv_message of r ended with: a worker's has_error/error, the *)
(* main thread's return or throw.                                       *)
RecvOutcome(r) == IF r = Main THEN lastCall ELSE result[r]

Disconnected(o) ==
  o.threw /\ o.code = CROSSLOCALE_ERR_BACKEND_DISCONNECTED

Upto(n) == [i \in 1..n |-> i]

IsPrefix(s, t) == Len(s) <= Len(t) /\ s = SubSeq(t, 1, Len(s))

(* ---------------------------------------------------------------------- *)
(* C1: once close() has returned, every send_message throws                *)
(* BACKEND_DISCONNECTED and leaves the outbound channel as it was, and     *)
(* is_closed() returns true, from the state close() returned in onwards.   *)
C1_SendAfterCloseFails ==
  /\ [](closeReturned /\ nodeBackend = "live" =>
          /\ ~FfiBackend_is_closed.exc.threw
          /\ FfiBackend_is_closed.result = TRUE)
  /\ [][closeReturned =>
          /\ NodeBackend_send_message =>
               /\ lastCall'.op = "send_message"
               /\ Disconnected(lastCall')
               /\ outbound' = outbound
               /\ sentOk' = sentOk
          /\ NodeBackend_is_closed =>
               /\ ~lastCall'.threw
               /\ lastCall'.flag = TRUE]_vars

(* A send_message made after close() while the backend thread still runs *)
(* has thrown BACKEND_DISCONNECTED.                                      *)
C1_Witness ==
  /\ closeReturned
  /\ worker = "running"
  /\ lastCall.op = "send_message"
  /\ Disconnected(lastCall)
  /\ outbound = <<>>

(* C2: recv_message hands out the messages the backend thread enqueued,   *)
(* each once and in order, also after close(); it reports                 *)
(* BACKEND_DISCONNECTED only when the inbound channel is empty, the       *)
(* backend thread is gone and every message enqueued has been delivered.  *)
C2_RecvDrainsBeforeDisconnect ==
  /\ raw # nullptr => delivered \o inbound = Upto(produced)
  /\ IsPrefix(delivered, Upto(produced))
  /\ \A r \in Receivers :
       /\ pc[r] = "ret" /\ result[r].res = CROSSLOCALE_ERR_BACKEND_DISCONNECTED
            => inbound = <<>> /\ worker # "running"
                 /\ delivered = Upto(produced)
       /\ pc[r] = "done" /\ result[r].threw
            => /\ result[r].code = CROSSLOCALE_ERR_BACKEND_DISCONNECTED
               /\ delivered = Upto(produced)
       /\ pc[r] = "done" /\ ~result[r].threw
            => result[r].msg \in 1..Len(delivered)
  /\ lastCall.op = "recv_message_sync" /\ lastCall.threw
       => /\ lastCall.code = CROSSLOCALE_ERR_BACKEND_DISCONNECTED
          /\ delivered = Upto(produced)

(* After close() the main thread has received the two messages enqueued *)
(* and its next recv_message_sync threw BACKEND_DISCONNECTED.           *)
C2_Witness ==
  /\ closeReturned
  /\ closes = 1
  /\ lastCall.op = "recv_message_sync"
  /\ Disconnected(lastCall)
  /\ delivered = Upto(MaxMsgs)
  /\ \A w \in Workers : pc[w] = "unborn"

(* C3: the backend thread takes the messages of the main thread's        *)
(* send_message calls that returned normally in the order of the calls:  *)
(* what it has taken is a prefix of them, and as long as it runs what it *)
(* has taken and what is queued are exactly the messages sent.           *)
C3_SendFifo ==
  /\ IsPrefix(workerSeen, sentOk)
  /\ worker = "running" => workerSeen \o outbound = sentOk
  /\ IsPrefix(outbound, SubSeq(sentOk, Len(workerSeen) + 1, Len(sentOk)))

(* The backend thread has taken every message of MaxSends sends. *)
C3_Witness ==
  /\ Len(workerSeen) = MaxSends
  /\ workerSeen = Upto(MaxSends)

(* C4: with several callers in recv_message at once, at most one is inside *)
(* crosslocale_backend_recv_message, no message is held by two callers and *)
(* the messages come in the order they were enqueued.                      *)
C4_ConcurrentRecv ==
  /\ Cardinality({r \in Receivers : InRecv(r)}) <= 1
  /\ \A r \in Receivers : InRecv(r) => mutex[recv_message_guard] = {r}
  /\ delivered = Upto(Len(delivered))
  /\ \A r \in Receivers :
       pc[r] = "ret" /\ result[r].res = CROSSLOCALE_OK
         => result[r].msg = Len(delivered) + 1
  /\ \A r1, r2 \in Workers :
       /\ r1 # r2
       /\ pc[r1] = "done" /\ ~result[r1].threw
       /\ pc[r2] = "done" /\ ~result[r2].threw
       => result[r1].msg # result[r2].msg

(* One worker returns the second message while another worker holds the *)
(* first and the main thread waits for recv_mutex.                      *)
C4_Witness ==
  /\ pc[Main] = "lock"
  /\ \E w1, w2 \in Workers :
       /\ pc[w1] = "done" /\ ~result[w1].threw
       /\ pc[w2] = "ret" /\ result[w2].res = CROSSLOCALE_OK
       /\ result[w2].msg # result[w1].msg

(* C5: while a worker is blocked in crosslocale_backend_recv_message,    *)
(* holding recv_mutex, the main thread's send_message, close and         *)
(* is_closed can run; and a caller waiting to enter recv_message waits   *)
(* for recv_mutex only.                                                  *)
C5_RecvDoesNotBlockSend ==
  /\ (\E w \in Workers : Blocked(w)) /\ MainIdle /\ nodeBackend = "live"
       => /\ sendCount < MaxSends => ENABLED NodeBackend_send_message
          /\ ENABLED NodeBackend_close
          /\ ENABLED NodeBackend_is_closed
  /\ \A r \in Receivers : Blocked(r) => mutex[send_message_guard] # {r}
  /\ \A w \in Workers :
       pc[w] = "queued" /\ process = "running" /\ mutex["recv_mutex"] = {}
         => ENABLED NodeRecvMessageWorker_Execute(w)

(* A send_message has returned normally while a worker is blocked in recv. *)
C5_Witness ==
  /\ \E w \in Workers : Blocked(w) /\ mutex["recv_mutex"] = {w}
  /\ produced = 0
  /\ lastCall.op = "send_message"
  /\ ~lastCall.threw
  /\ outbound # <<>>

(* C6 as stated: once the backend thread has ended, is_closed() is true,  *)
(* the handle never returns to Open, a recv blocked at that moment can     *)
(* return and returns BACKEND_DISCONNECTED, and every recv_message begun   *)
(* later ends with BACKEND_DISCONNECTED.                                   *)
C6_Original ==
  /\ [](WorkerGone /\ nodeBackend = "live" =>
          /\ ~FfiBackend_is_closed.exc.threw
          /\ FfiBackend_is_closed.result = TRUE)
  /\ [](\A r \in Receivers :
          WorkerGone /\ pc[r] = "call" /\ process = "running"
            => ENABLED crosslocale_backend_recv_message(r))
  /\ [][/\ HandleState \in {"ClosedLocally", "Disconnected", "Freed"}
             => HandleState' # "Open"
        /\ WorkerGone => WorkerGone'
        /\ \A r \in Receivers :
             /\ WorkerGone /\ pc[r] = "call" /\ inbound = <<>> /\ pc'[r] = "ret"
                  => result'[r].res = CROSSLOCALE_ERR_BACKEND_DISCONNECTED
             /\ pc[r] = "ret" /\ pc'[r] # "ret"
                  /\ result[r].res = CROSSLOCALE_ERR_BACKEND_DISCONNECTED
                  => Disconnected(RecvOutcome(r)')
             /\ pc[r] = "ret" /\ pc'[r] # "ret" /\ lateRecv[r]
                  => Disconnected(RecvOutcome(r)')]_vars

(* C6, amended: as C6_Original, but a recv_message begun after the backend *)
(* thread ended first returns the messages still queued, in order, and     *)
(* ends with BACKEND_DISCONNECTED once the inbound channel is empty.       *)
C6_DisconnectByWorker ==
  /\ [](WorkerGone /\ nodeBackend = "live" =>
          /\ ~FfiBackend_is_closed.exc.threw
          /\ FfiBackend_is_closed.result = TRUE)
  /\ [](\A r \in Receivers :
          WorkerGone /\ pc[r] = "call" /\ process = "running"
            => ENABLED crosslocale_backend_recv_message(r))
  /\ [][/\ HandleState \in {"ClosedLocally", "Disconnected", "Freed"}
             => HandleState' # "Open"
        /\ WorkerGone => WorkerGone'
        /\ \A r \in Receivers :
             /\ WorkerGone /\ pc[r] = "call" /\ inbound = <<>> /\ pc'[r] = "ret"
                  => result'[r].res = CROSSLOCALE_ERR_BACKEND_DISCONNECTED
             /\ pc[r] = "ret" /\ pc'[r] # "ret"
                  /\ result[r].res = CROSSLOCALE_ERR_BACKEND_DISCONNECTED
                  => Disconnected(RecvOutcome(r)')
             /\ pc[r] = "ret" /\ pc'[r] # "ret" /\ lateRecv[r]
                  => IF inbound = <<>>
                       THEN Disconnected(RecvOutcome(r)')
                       ELSE /\ ~RecvOutcome(r)'.threw
                            /\ delivered' = Append(delivered, Head(inbound))
                            /\ inbound' = Tail(inbound)]_vars

(* Without any close(), the backend thread has ended with a message still *)
(* queued, and a recv_message begun after that is returning the message.  *)
C6_Witness ==
  /\ ~closed
  /\ HandleState = "Disconnected"
  /\ \E r \in Receivers :
       /\ pc[r] = "ret"
       /\ lateRecv[r]
       /\ result[r].res = CROSSLOCALE_OK
       /\ result[r].msg = Head(inbound)

(* The case of C7, crosslocale_backend_free called while a recv is blocked *)
(* on the handle, does not arise in the addon: in a state with a blocked   *)
(* recv no step frees the handle, not even the collection of the Backend   *)
(* object, and the recv stays in its call until the backend thread sends   *)
(* or ends.  What crosslocale_backend_free does to a blocked recv is       *)
(* therefore decided outside the addon.                                    *)
BlockedRecvKeepsHandle ==
  [][\A r \in Receivers :
       Blocked(r) => /\ pc'[r] = "call"
                     /\ raw' # nullptr
                     /\ freeCalls' = 0
                     /\ Blocked(r)' \/ worker' # "running" \/ inbound' # <<>>]_vars

(* The Backend object was collected while a worker is blocked in recv, and *)
(* the handle is not freed.                                                *)
BlockedRecvKeepsHandle_Witness ==
  /\ nodeBackend = "finalized"
  /\ \E w \in Workers : Blocked(w)
  /\ raw # nullptr
  /\ freeCalls = 0

(* C8: crosslocale_backend_free is called once, when the last owner of the *)
(* FfiBackend goes away, and never twice; when it is called no call on the *)
(* handle is in progress or can start, and no NodeRecvMessageWorker is     *)
(* queued or executing.                                                    *)
C8_FreeOnceAfterLastUse ==
  /\ freeCalls <= 1
  /\ freeCalls = 1 <=> (nodeBackend = "finalized" /\ refs = 0)
  /\ raw = nullptr <=> (freeCalls = 1 \/ nodeBackend \in {"none", "failed"})
  /\ refs = (IF nodeBackend = "live" THEN 1 ELSE 0)
            + Cardinality({w \in Workers :
                             pc[w] \in {"queued", "call", "ret", "done"}})
  /\ freeCalls = 1 =>
       /\ pc[Main] = "idle"
       /\ \A w \in Workers : pc[w] \in {"unborn", "destroyed"}
       /\ mutex = [send_mutex |-> {}, recv_mutex |-> {}]
       /\ ~ENABLED NodeBackend_send_message
       /\ ~ENABLED NodeBackend_recv_message
       /\ ~ENABLED NodeBackend_recv_message_sync
       /\ ~ENABLED NodeBackend_close
       /\ ~ENABLED NodeBackend_is_closed

(* The Backend object was collected while a worker was still to deliver *)
(* its result: the handle is kept until the worker is deleted.          *)
C8_Witness ==
  /\ nodeBackend = "finalized"
  /\ \E w \in Workers : pc[w] = "done"
  /\ refs = 1
  /\ freeCalls = 0
  /\ raw # nullptr

(* C9: close() returns normally every time it is called; a second close() *)
(* changes nothing of the handle, which after either is ClosedLocally:    *)
(* is_closed() is true and send_message throws BACKEND_DISCONNECTED.      *)
C9_CloseIdempotent ==
  /\ [](closeReturned /\ nodeBackend = "live" =>
          /\ HandleState = "ClosedLocally"
          /\ FfiBackend_is_closed.result = TRUE
          /\ Disconnected(FfiBackend_send_message(sendCount + 1).exc))
  /\ [][NodeBackend_close =>
          /\ lastCall'.op = "close"
          /\ ~lastCall'.threw
          /\ lastCall'.code = CROSSLOCALE_OK
          /\ closeReturned'
          /\ closeReturned =>
               UNCHANGED <<nodeBackend, refs, raw, mutex, pc, result, process,
                           closed, worker, outbound, inbound, freeCalls>>]_vars

(* close() has returned normally twice. *)
C9_Witness ==
  /\ closes = 2
  /\ lastCall.op = "close"
  /\ ~lastCall.threw
  /\ HandleState = "ClosedLocally"

(* C10: is_closed() returns false exactly when the handle is Open, true   *)
(* when it is ClosedLocally or Disconnected, never throws, and changes    *)
(* nothing but what the caller learns.                                    *)
C10_IsClosedObserver ==
  /\ [](nodeBackend = "live" =>
          /\ ~FfiBackend_is_closed.exc.threw
          /\ FfiBackend_is_closed.result = (HandleState # "Open")
          /\ HandleState \in {"Open", "ClosedLocally", "Disconnected"})
  /\ [][NodeBackend_is_closed =>
          /\ lastCall'.op = "is_closed"
          /\ ~lastCall'.threw
          /\ lastCall'.flag = (HandleState # "Open")
          /\ HandleState' = HandleState
          /\ UNCHANGED <<nodeBackend, refs, raw, mutex, pc, result, lateRecv,
                         closes, process, closed, worker, outbound, inbound,
                         freeCalls, sendCount, sentOk, workerSeen, produced,
                         delivered>>]_vars

(* is_closed() has returned true on a handle nobody closed: the backend *)
(* thread ended.                                                        *)
C10_Witness ==
  /\ lastCall.op = "is_closed"
  /\ lastCall.flag
  /\ closes = 0
  /\ ~closed
  /\ HandleState = "Disconnected"

(* C11: a send_message that returns normally appends its one message to  *)
(* the tail of the outbound queue; one that throws leaves the outbound    *)
(* queue as it was; neither changes the handle's state, the inbound queue *)
(* or the handle itself.                                                  *)
C11_SendFrame ==
  [][NodeBackend_send_message =>
       /\ lastCall'.op = "send_message"
       /\ HandleState' = HandleState
       /\ UNCHANGED <<raw, closed, worker, inbound, freeCalls, refs, mutex>>
       /\ IF lastCall'.threw
            THEN /\ outbound' = outbound
                 /\ HandleState # "Open"
            ELSE /\ outbound' = Append(outbound, sendCount + 1)
                 /\ Len(outbound') = Len(outbound) + 1
                 /\ HandleState = "Open"]_vars

(* A second send_message has returned normally with the first message *)
(* still queued, and the handle is still Open.                         *)
C11_Witness ==
  /\ lastCall.op = "send_message"
  /\ ~lastCall.threw
  /\ outbound = Upto(MaxSends)
  /\ inbound # <<>>
  /\ HandleState = "Open"

(* C12: Init of the addon compares the library's bridge version with the   *)
(* supported one before a Backend can be constructed.  If they differ      *)
(* nothing at all is exported (no constant, no init_logging, no Backend),  *)
(* no handle is ever made and no message is ever sent or received; the     *)
(* exports are either none or all of them.                                 *)
C12_VersionGate ==
  /\ exports \in {{}, Init_exports}
  /\ exports # {} <=> addon = "loaded"
  /\ addon = "loaded" =>
       CROSSLOCALE_FFI_BRIDGE_VERSION = SUPPORTED_FFI_BRIDGE_VERSION
  /\ addon # "loaded" =>
       /\ ~ENABLED NodeBackend_new
       /\ nodeBackend = "none"
       /\ raw = nullptr
       /\ refs = 0
       /\ worker = "none"
       /\ lastCall = NoCall
       /\ sendCount = 0
       /\ produced = 0
       /\ outbound = <<>>
       /\ inbound = <<>>
  /\ CROSSLOCALE_FFI_BRIDGE_VERSION # SUPPORTED_FFI_BRIDGE_VERSION =>
       addon # "loaded"

(* Init has run against a library of another bridge version and failed. *)
C12_Witness ==
  /\ CROSSLOCALE_FFI_BRIDGE_VERSION = SUPPORTED_FFI_BRIDGE_VERSION + 1
  /\ addon = "failed"
  /\ exports = {}

(* C13: every message is released once, by the free of the side that made *)
(* it, and is not read afterwards.  The message of a send_message call is *)
(* built by the host, read by the one call it is passed to and released   *)
(* with free_raw_value when the call is over, whether it returned or      *)
(* threw; a message received from the backend is read by to_js_value and  *)
(* then released with crosslocale_message_free, a worker holding it until *)
(* its callback has run; a recv_message that failed has no message and    *)
(* releases none.                                                         *)
C13_MessageOwnership ==
  LET JsLife == <<"from_js_value_impl", "crosslocale_backend_send_message",
                  "free_raw_value">>
      RustHeld == <<"BackendMessageFromRust">>
      RustLife == <<"BackendMessageFromRust", "to_js_value",
                    "crosslocale_message_free">>
      Held == {result[w].msg :
                 w \in {v \in Workers : pc[v] = "done" /\ ~result[v].threw}}
      Received == {delivered[i] : i \in 1..Len(delivered)}
  IN  /\ Len(fromJs) = sendCount
      /\ \A i \in 1..Len(fromJs) : fromJs[i] = JsLife
      /\ \A m \in 1..MaxMsgs :
           fromRust[m] = IF m \notin Received THEN <<>>
                         ELSE IF m \in Held THEN RustHeld
                         ELSE RustLife
      /\ Held \subseteq Received

(* One send_message returned and one threw, the first inbound message was *)
(* delivered and released, the second is held by a worker whose callback  *)
(* has not run yet, and another recv_message has failed.                  *)
C13_Witness ==
  /\ Len(fromJs) = MaxSends
  /\ Len(sentOk) < sendCount
  /\ Len(fromRust[1]) = 3
  /\ Len(fromRust[2]) = 1
  /\ lastCall.op = "recv_message_sync"
  /\ lastCall.threw

(* A JS value that has a crosslocale_message. *)
Representable(js_value) == js_value.type \notin Unrepresentable

(* send_message was called with a JS value of the caller. *)
SentJs == codec = "sent"

(* send_message was called with the JS value of a message of the backend. *)
SentBack == codec = "sent back"

(* C14: the message sent for an array, or for an object, has one entry  *)
(* for each child that is representable and none for the others: it is  *)
(* shorter by the number of unrepresentable children, and its entries  *)
(* are the messages of the representable children in their order.       *)
C14_DropNotPropagate ==
  (SentJs /\ jsValue.type = "napi_object") =>
    IF jsValue.IsArray
      THEN LET Kept(c) == Representable(c)
               kept == SelectSeq(jsValue.elements, Kept)
           IN  /\ message.type = CROSSLOCALE_MESSAGE_LIST
               /\ Len(message.value_list) = Len(kept)
               /\ \A i \in 1..Len(kept) :
                    message.value_list[i] \in from_js_value_impl(kept[i])
      ELSE LET Kept(i) == Representable(jsValue.props[i])
               kept == SelectSeq([i \in 1..Len(jsValue.names) |-> i], Kept)
           IN  /\ message.type = CROSSLOCALE_MESSAGE_DICT
               /\ Len(message.keys) = Len(kept)
               /\ Len(message.values) = Len(kept)
               /\ \A i \in 1..Len(kept) :
                    /\ message.keys[i] = from_js_str(jsValue.names[kept[i]])
                    /\ message.values[i]
                         \in from_js_value_impl(jsValue.props[kept[i]])

(* C15: send_message of a symbol, a function, an external or a bigint  *)
(* throws, and crosslocale_backend_send_message is not called with a    *)
(* message of type INVALID nor is one put on the outbound channel.      *)
C15_TopLevelInvalidFails ==
  (SentJs /\ ~Representable(jsValue)) =>
    /\ lastCall.threw
    /\ message.type # CROSSLOCALE_MESSAGE_INVALID
    /\ outbound = <<>>

RECURSIVE NoInvalid(_)
(* A message with no INVALID at any depth. *)
NoInvalid(msg) ==
  CASE msg.type = CROSSLOCALE_MESSAGE_INVALID -> FALSE
    [] msg.type = CROSSLOCALE_MESSAGE_LIST ->
         \A i \in 1..Len(msg.value_list) : NoInvalid(msg.value_list[i])
    [] msg.type = CROSSLOCALE_MESSAGE_DICT ->
         \A i \in 1..Len(msg.values) : NoInvalid(msg.values[i])
    [] OTHER -> TRUE

(* Keys as a JS object lists its property names: no key twice, the keys *)
(* that are array indices first and ascending.                          *)
PropertyOrder(keys) ==
  \A i, j \in 1..Len(keys) :
    i < j => /\ keys[i] # keys[j]
             /\ keys[j] \in DOMAIN ArrayIndex =>
                  /\ keys[i] \in DOMAIN ArrayIndex
                  /\ ArrayIndex[keys[i]] < ArrayIndex[keys[j]]

RECURSIVE RoundTrippable(_)
(* The messages C16 is amended to: at every node, an Int64 is not       *)
(* negative and is a number some double is, a Float64 has a fractional  *)
(* part or is 2^63 or more, and the keys of a Dict are in PropertyOrder. *)
RoundTrippable(msg) ==
  CASE msg.type = CROSSLOCALE_MESSAGE_INVALID -> FALSE
    [] msg.type = CROSSLOCALE_MESSAGE_I64 ->
         /\ msg.value_i64 >= 0
         /\ int64_to_double(msg.value_i64) = 2 * msg.value_i64
    [] msg.type = CROSSLOCALE_MESSAGE_F64 ->
         \/ msg.value_f64 % 2 = 1
         \/ msg.value_f64 > 2 * INT64_MAX
    [] msg.type = CROSSLOCALE_MESSAGE_LIST ->
         \A i \in 1..Len(msg.value_list) : RoundTrippable(msg.value_list[i])
    [] msg.type = CROSSLOCALE_MESSAGE_DICT ->
         /\ PropertyOrder(msg.keys)
         /\ \A i \in 1..Len(msg.values) : RoundTrippable(msg.values[i])
    [] OTHER -> TRUE

C17_NumericClassification ==
  (SentJs /\ jsValue.type = "napi_number") =>
    LET n_float == jsValue.n
        n_int == n_float \div 2
    IN  message =
          IF /\ n_float % 2 = 0
             /\ INT64_MIN <= n_int /\ n_int <= INT64_MAX
             /\ int64_to_double(n_int) = n_float
            THEN I64(n_int)
            ELSE F64(n_float)

(* C18: whatever crosslocale_backend_free reports, the call of it leaves *)
(* the handle Freed and the host process running.                        *)
C18_FreeAbsorbsPanic ==
  freeCalls > 0 => /\ HandleState = "Freed"
                   /\ process = "running"

(* C19: a new Backend() whose crosslocale_backend_new failed throws      *)
(* SPAWN_THREAD_FAILED and leaves no Backend and no FfiBackend: no handle *)
(* was written, nothing owns one, no method can be called, and            *)
(* crosslocale_backend_free is never called; a Backend that exists has a  *)
(* handle that is not null.                                               *)
C19_NewFailure ==
  /\ [](nodeBackend = "failed" =>
          /\ lastCall.op = "new"
          /\ lastCall.threw
          /\ lastCall.code = CROSSLOCALE_ERR_SPAWN_THREAD_FAILED
          /\ raw = nullptr
          /\ refs = 0
          /\ worker = "none"
          /\ freeCalls = 0
          /\ sendCount = 0
          /\ closes = 0
          /\ pc = [r \in Receivers |-> IF r = Main THEN "idle" ELSE "unborn"]
          /\ ~ENABLED NodeBackend_send_message
          /\ ~ENABLED NodeBackend_recv_message
          /\ ~ENABLED NodeBackend_recv_message_sync
          /\ ~ENABLED NodeBackend_close
          /\ ~ENABLED NodeBackend_is_closed
          /\ ~ENABLED NodeBackend_finalize)
  /\ [](nodeBackend = "live" => raw # nullptr /\ refs > 0)
  /\ [][nodeBackend = "failed" => nodeBackend' = "failed"]_vars

(* new Backend() has thrown SPAWN_THREAD_FAILED. *)
C19_Witness ==
  /\ nodeBackend = "failed"
  /\ lastCall.op = "new"
  /\ lastCall.code = CROSSLOCALE_ERR_SPAWN_THREAD_FAILED
  /\ process = "running"

(* C20: crosslocale_backend_recv_message is never entered on the JS main *)
(* thread, only on the pool thread of a NodeRecvMessageWorker.            *)
C20_RecvOffMainThread ==
  \A r \in Receivers : InRecv(r) => r \in Workers

(* C21: every recv_message request gets one call of its callback and no  *)
(* more: the call is made in the step that ends the request, which is    *)
(* taken once its crosslocale_backend_recv_message has returned, can be  *)
(* taken whenever the main thread is free from then on, and is the only  *)
(* way the request ends.  The call has the arguments (null, value of the *)
(* message) if the result was OK, else one Error whose errno is the      *)
(* result and whose code and message are the id and the description of   *)
(* it.  What a request holds (has_error, error, message) changes only in *)
(* steps of that request.  In every run where the main thread comes back *)
(* to the event loop again and again, a request whose recv has returned  *)
(* does get its call.                                                    *)
C21_OneCallbackPerRequest ==
  /\ [](\A w \in Workers :
          /\ Len(callback[w]) = IF pc[w] = "destroyed" THEN 1 ELSE 0
          /\ (pc[w] = "done" /\ MainIdle) =>
                ENABLED NodeRecvMessageWorker_OnOK_Call(w))
  /\ [][(pc' # pc \/ result' # result \/ callback' # callback) =>
         \A w \in Workers :
          /\ pc[w] = "done" => pc'[w] \in {"done", "destroyed"}
          /\ pc[w] = "destroyed" => pc'[w] = "destroyed"
          /\ callback'[w] # callback[w] =>
                /\ pc[w] = "done"
                /\ Len(callback'[w]) = 1
                /\ LET args == callback'[w][1]
                       res == result[w].res IN
                   IF res = CROSSLOCALE_OK
                     THEN /\ Len(args) = 2
                          /\ args[1].type = "null"
                          /\ args[2].type = "value"
                          /\ args[2].of = result[w].msg
                          /\ result[w].msg \in 1..MaxMsgs
                     ELSE /\ Len(args) = 1
                          /\ args[1].type = "Error"
                          /\ args[1].errno = res
                          /\ args[1].code = crosslocale_error_id_str(res)
                          /\ args[1].message =
                               crosslocale_error_description(res)
          /\ result'[w] # result[w] => pc'[w] # pc[w]]_vars
  /\ ([]<>MainIdle) =>
        \A w \in Workers : (pc[w] = "done") ~> (pc[w] = "destroyed")

(* One callback was called with (null, value) and another with the Error *)
(* of BACKEND_DISCONNECTED.                                              *)
C21_Witness ==
  \E v, w \in Workers :
    /\ pc[v] = "destroyed" /\ pc[w] = "destroyed"
    /\ Len(callback[v]) = 1 /\ Len(callback[v][1]) = 2
    /\ callback[v][1][2].type = "value"
    /\ Len(callback[w]) = 1 /\ Len(callback[w][1]) = 1
    /\ callback[w][1][1].errno = CROSSLOCALE_ERR_BACKEND_DISCONNECTED
    /\ callback[w][1][1].code = "BACKEND_DISCONNECTED"

(* C22: free_raw_value of a message that send_message made reads only   *)
(* entries that from_js_value_impl assigned, and releases the blocks     *)
(* that it allocated, each once, and no other.                           *)
C22_FreeReadsInitialised ==
  codec \in {"sent", "sent back"} =>
    /\ heap.read \subseteq heap.written
    /\ {heap.released[i] : i \in 1..Len(heap.released)} = heap.allocated
    /\ Len(heap.released) = Cardinality(heap.allocated)
====
